---------------------------- MODULE Spec2Model ----------------------------
(***************************************************************************)
(* Model of src/main.py: a Flask app whose POST /submit handler requests a *)
(* PageSpeed Insights audit (get_psi_audit), extracts 13 fixed metrics     *)
(* (extract_audits) and appends them as one row to a BigQuery table        *)
(* (insert_audits).                                                        *)
(*                                                                         *)
(* Python values are modelled as follows: a dict is a function over        *)
(* strings, a str that the code parses is a sequence of one-character      *)
(* strings, None is the record None, an exception is a record with a       *)
(* "type" field, a list is a sequence.                                     *)
(***************************************************************************)
EXTENDS Integers, Sequences, FiniteSets, TLC

(* ---------------------------- bounds ---------------------------------- *)

\* Number of POST /submit requests served (possibly at the same time).
NumRequests == 2
\* Largest number of the 13 audits that an audit response may lack.
MaxMissing == 1
\* Audit responses carry numericValues seeded by 0..MaxSeed.
MaxSeed == 1

(* ------------------------- python values ------------------------------ *)

None == [type |-> "NoneType"]

Restrict(f, S) == [k \in S |-> f[k]]

(* --------------------- datetime.strptime (line 92) --------------------- *)

DigitChars == <<"0", "1", "2", "3", "4", "5", "6", "7", "8", "9">>

IsDigit(c) == \E i \in 1..10 : DigitChars[i] = c

DigitVal(c) == (CHOOSE i \in 1..10 : DigitChars[i] = c) - 1

\* Number of consecutive digits of s from position i on.
RECURSIVE DigitRun(_, _)
DigitRun(s, i) ==
  IF i <= Len(s) /\ IsDigit(s[i]) THEN 1 + DigitRun(s, i + 1) ELSE 0

\* int() of the n characters of s that start at position i.
RECURSIVE ToInt(_, _, _)
ToInt(s, i, n) ==
  IF n = 0 THEN 0 ELSE 10 * ToInt(s, i, n - 1) + DigitVal(s[i + n - 1])

RECURSIVE Pow10(_)
Pow10(n) == IF n = 0 THEN 1 ELSE 10 * Pow10(n - 1)

NoMatch == [ok |-> FALSE, val |-> 0, next |-> 0, len |-> 0]

\* One numeric directive of the format: between minLen and maxLen digits at
\* position pos whose value lies in lo..hi, followed by the literal lit.
Field(s, prev, minLen, maxLen, lo, hi, lit) ==
  IF ~prev.ok THEN NoMatch
  ELSE LET pos == prev.next
           n   == DigitRun(s, pos)
           v   == ToInt(s, pos, n)
       IN IF /\ n >= minLen
             /\ n <= maxLen
             /\ v >= lo
             /\ v <= hi
             /\ pos + n <= Len(s)
             /\ s[pos + n] = lit
          THEN [ok |-> TRUE, val |-> v, next |-> pos + n + 1, len |-> n]
          ELSE NoMatch

IsLeap(y) == (y % 4 = 0 /\ y % 100 # 0) \/ y % 400 = 0

DaysInMonth(y, m) ==
  IF m = 2 THEN (IF IsLeap(y) THEN 29 ELSE 28)
  ELSE IF m \in {4, 6, 9, 11} THEN 30 ELSE 31

ValueError == [type |-> "ValueError"]

\* datetime.strptime(s, '%Y-%m-%dT%H:%M:%S.%fZ'): the datetime, or ValueError
\* when s does not match the format, text remains after the match, or the
\* matched numbers are no date/time.  %f takes 1 to 6 digits and pads them
\* on the right to microseconds.
strptime(s) ==
  LET start == [ok |-> TRUE, val |-> 0, next |-> 1, len |-> 0]
      Y == Field(s, start, 4, 4, 0, 9999, "-")
      m == Field(s, Y, 1, 2, 1, 12, "-")
      d == Field(s, m, 1, 2, 1, 31, "T")
      H == Field(s, d, 1, 2, 0, 23, ":")
      M == Field(s, H, 1, 2, 0, 59, ":")
      S == Field(s, M, 1, 2, 0, 61, ".")
      f == Field(s, S, 1, 6, 0, 999999, "Z")
  IN IF /\ f.ok
        /\ f.next = Len(s) + 1
        /\ Y.val >= 1
        /\ d.val <= DaysInMonth(Y.val, m.val)
        /\ S.val <= 59
     THEN [type |-> "datetime", year |-> Y.val, month |-> m.val,
           day |-> d.val, hour |-> H.val, minute |-> M.val,
           second |-> S.val,
           microsecond |-> f.val * Pow10(6 - f.len)]
     ELSE ValueError

(* ---------------------- extract_audits (63-98) ------------------------- *)

\* The dict `audits` of extract_audits, in its insertion order: the audit id
\* in the PSI response and the BigQuery column it is stored under.
audits_map ==
  << <<"speed-index", "speed_index">>,
     <<"first-contentful-paint", "first_contentful_paint">>,
     <<"first-meaningful-paint", "first_meaningful_paint">>,
     <<"server-response-time", "server_response_time">>,
     <<"network-server-latency", "network_server_latency">>,
     <<"cumulative-layout-shift", "cumulative_layout_shift">>,
     <<"interactive", "interactive">>,
     <<"largest-contentful-paint", "largest_contentful_paint">>,
     <<"total-blocking-time", "total_blocking_time">>,
     <<"first-cpu-idle", "first_cpu_idle">>,
     <<"max-potential-fid", "max_potential_fid">>,
     <<"total-byte-weight", "total_byte_weight">>,
     <<"estimated-input-latency", "estimated_input_latency">> >>

AuditIds == {audits_map[i][1] : i \in DOMAIN audits_map}

MetricNames == {audits_map[i][2] : i \in DOMAIN audits_map}

KeyError(k) == [type |-> "KeyError", arg |-> k]

TypeError == [type |-> "TypeError"]

Returned(v) == [raised |-> FALSE, value |-> v]

Raised(e) == [raised |-> TRUE, exc |-> e]

\* d[k] of a dict d: KeyError when k is no key of d.
GetItem(d, k) == IF k \in DOMAIN d THEN Returned(d[k]) ELSE Raised(KeyError(k))

\* to_return[k] = v
SetItem(d, k, v) == [x \in DOMAIN d \cup {k} |-> IF x = k THEN v ELSE d[x]]

\* psi_json['lighthouseResult']['audits'][a]['numericValue'] (line 96)
NumericValue(psi_json, a) ==
  LET lr == GetItem(psi_json, "lighthouseResult")
  IN IF lr.raised THEN lr
     ELSE LET au == GetItem(lr.value, "audits")
          IN IF au.raised THEN au
             ELSE LET e == GetItem(au.value, a)
                  IN IF e.raised THEN e
                     ELSE GetItem(e.value, "numericValue")

\* The loop with a tolerant lookup: an audit without a value is left out.
RECURSIVE AuditLoopSkipMissing(_, _, _)
AuditLoopSkipMissing(psi_json, i, to_return) ==
  IF i > Len(audits_map) THEN Returned(to_return)
  ELSE LET nv == NumericValue(psi_json, audits_map[i][1])
       IN AuditLoopSkipMissing(psi_json, i + 1,
            IF nv.raised THEN to_return
            ELSE SetItem(to_return, audits_map[i][2], nv.value))

\* The loop of lines 95-96 from the i-th entry of audits on.
RECURSIVE AuditLoop(_, _, _)
AuditLoop(psi_json, i, to_return) ==
  IF i > Len(audits_map) THEN Returned(to_return)
  ELSE LET nv == NumericValue(psi_json, audits_map[i][1])
       IN IF nv.raised THEN nv
          ELSE AuditLoop(psi_json, i + 1,
                         SetItem(to_return, audits_map[i][2], nv.value))

\* Reading the URL that was asked for instead of the one that was audited.
RequestedUrl(psi_json) ==
  LET lr == GetItem(psi_json, "lighthouseResult")
  IN IF lr.raised THEN lr ELSE GetItem(lr.value, "requestedUrl")

\* psi_json['lighthouseResult']['finalUrl'] (line 94)
FinalUrl(psi_json) ==
  LET lr == GetItem(psi_json, "lighthouseResult")
  IN IF lr.raised THEN lr ELSE GetItem(lr.value, "finalUrl")

EmptyDict == [k \in {} |-> 0]

\* Lines 91-98 for a psi_json that is a dict.
ExtractFields(psi_json) ==
  LET ts == GetItem(psi_json, "analysisUTCTimestamp")
  IN IF ts.raised THEN ts
     ELSE LET date == strptime(ts.value)
          IN IF date = ValueError THEN Raised(ValueError)
             ELSE LET url == FinalUrl(psi_json)
                  IN IF url.raised THEN url
                     ELSE AuditLoop(psi_json, 1,
                            SetItem(SetItem(EmptyDict, "date", date),
                                    "url", url.value))

\* An extraction that answers an empty audit result with an empty row.
extract_audits_or_empty(psi_json) ==
  IF psi_json = None THEN Returned(EmptyDict) ELSE ExtractFields(psi_json)

\* extract_audits(psi_json): subscripting None is a TypeError.
extract_audits(psi_json) ==
  IF psi_json = None THEN Raised(TypeError) ELSE ExtractFields(psi_json)

(* ------------------ inputs: PageSpeed Insights replies ------------------ *)

\* "2022-05-01T12:34:56.789012Z"
TsMicro ==
  <<"2", "0", "2", "2", "-", "0", "5", "-", "0", "1", "T", "1", "2", ":",
    "3", "4", ":", "5", "6", ".", "7", "8", "9", "0", "1", "2", "Z">>

\* "2022-05-01T12:34:56.789Z"
TsMilli ==
  <<"2", "0", "2", "2", "-", "0", "5", "-", "0", "1", "T", "1", "2", ":",
    "3", "4", ":", "5", "6", ".", "7", "8", "9", "Z">>

\* "2022-05-01T12:34:56Z": no fraction of a second, so no match of '.%f'
TsNoFraction ==
  <<"2", "0", "2", "2", "-", "0", "5", "-", "0", "1", "T", "1", "2", ":",
    "3", "4", ":", "5", "6", "Z">>

\* "2022-02-30T12:34:56.7Z": matches the format, but is no date
TsBadDay ==
  <<"2", "0", "2", "2", "-", "0", "2", "-", "3", "0", "T", "1", "2", ":",
    "3", "4", ":", "5", "6", ".", "7", "Z">>

Timestamps == {TsMicro, TsMilli, TsNoFraction, TsBadDay}

Urls == {"https://example.com", "https://example.org"}

\* The URL PSI reports after redirects; not the URL that was submitted.
Resolved(url) ==
  IF url = "https://example.com" THEN "https://www.example.com/"
  ELSE "https://www.example.org/"

AuditIndex(a) ==
  IF a \in AuditIds THEN CHOOSE i \in DOMAIN audits_map : audits_map[i][1] = a
  ELSE 0

\* A complete report: every audit of extract_audits and one it does not read.
FullReport(url, ts, seed) ==
  [kind |-> "pagespeedonline#result",
   id |-> url,
   analysisUTCTimestamp |-> ts,
   lighthouseResult |->
     [requestedUrl |-> url,
      finalUrl |-> Resolved(url),
      audits |-> [a \in AuditIds \cup {"bootup-time"} |->
                    [id |-> a, numericValue |-> 10 * AuditIndex(a) + seed]]]]

WithoutKey(d, k) == Restrict(d, DOMAIN d \ {k})

\* The report without the entries of the audits in S.
WithoutAudits(report, S) ==
  [report EXCEPT !.lighthouseResult.audits =
     Restrict(@, DOMAIN @ \ S)]

\* The report whose audit a has no numericValue.
WithoutNumericValue(report, a) ==
  [report EXCEPT !.lighthouseResult.audits[a] = WithoutKey(@, "numericValue")]

Seeds == 0..MaxSeed

MissingSets == {S \in SUBSET AuditIds : Cardinality(S) \in 1..MaxMissing}

\* The arguments extract_audits is applied to on its own.
ExtractInputs ==
  {None}
  \cup {FullReport(u, ts, sd) : u \in Urls, ts \in Timestamps, sd \in Seeds}
  \cup {WithoutAudits(FullReport(u, TsMilli, 0), S) :
          u \in Urls, S \in MissingSets}
  \cup {WithoutNumericValue(FullReport(u, TsMilli, 0), a) :
          u \in Urls, a \in AuditIds}
  \cup {WithoutKey(FullReport(u, TsMilli, 0), "analysisUTCTimestamp") :
          u \in Urls}
  \cup {WithoutKey(FullReport(u, TsMilli, 0), "lighthouseResult") : u \in Urls}
  \cup {[FullReport(u, TsMilli, 0) EXCEPT !.lighthouseResult =
           WithoutKey(@, "finalUrl")] : u \in Urls}
  \cup {[FullReport(u, TsMilli, 0) EXCEPT !.lighthouseResult =
           WithoutKey(@, "audits")] : u \in Urls}

HttpError == [type |-> "HttpError", status_code |-> 429,
              error_details |-> "Quota exceeded"]

TransportError == [type |-> "ServerNotFoundError"]

\* What psi_request.execute() (line 54) can do for a request.
ExecuteOutcomes(url) ==
  {Returned(FullReport(url, TsMilli, 0)),
   Returned(WithoutAudits(FullReport(url, TsMilli, 0), {"first-cpu-idle"})),
   Returned(FullReport(url, TsNoFraction, 0)),
   Raised(HttpError),
   Raised(TransportError)}

(* ---------------------- inputs: BigQuery replies ------------------------ *)

RowError(reason) ==
  <<[index |-> 0, errors |-> <<[reason |-> reason]>>]>>

NotFound == [type |-> "NotFound"]

\* What bq_client.get_table (line 115) and bq_client.insert_rows (line 116)
\* can do: the table is missing; the table has no schema, which insert_rows
\* refuses with a ValueError; or the row is sent, and accepted (no errors)
\* or rejected (one entry for the row).
BigQueryReplies ==
  {[get_table |-> Raised(NotFound), insert_rows |-> Returned(<<>>)],
   [get_table |-> Returned("table"), insert_rows |-> Raised(ValueError)],
   [get_table |-> Returned("table"), insert_rows |-> Returned(<<>>)],
   [get_table |-> Returned("table"),
    insert_rows |-> Returned(RowError("invalid"))],
   [get_table |-> Returned("table"),
    insert_rows |-> Returned(RowError("stopped"))]}

(* ------------------------------ state ----------------------------------- *)

Requests == 1..NumRequests

\* A local that is not bound yet: one that will hold a dict, list or
\* outcome, and one that will hold a str.
Unset == [type |-> "unset"]

Unbound == "<unbound>"

NoResponse == [status |-> 0]

VARIABLES
  environ,       \* os.environ
  table,         \* the rows of the BigQuery table, in insertion order
  log,           \* per request: the records it handed to logging, in order
  pc,            \* per request: the step of submit_test it is at
  test_url,      \* per request: local test_url of submit_test
  psi_object,    \* per request: local psi_object
  audits,        \* per request: local audits
  bq_table,      \* per request: local bq_table
  errors,        \* per request: what bq_client.insert_rows returned
  exc,           \* per request: the exception in flight in the try block
  insert_calls,  \* per request: number of calls of insert_audits
  response,      \* per request: what the client receives
  psi_reply,     \* per request: what psi_request.execute() did
  bq_reply,      \* per request: what BigQuery did
  arg_psi_json,  \* argument of a stand-alone call of extract_audits
  ret_extract    \* its outcome

vars == <<environ, table, log, pc, test_url, psi_object, audits, bq_table,
          errors, exc, insert_calls, response, psi_reply, bq_reply,
          arg_psi_json, ret_extract>>

request_vars == <<environ, table, log, pc, test_url, psi_object, audits,
                  bq_table, errors, exc, insert_calls, response, psi_reply,
                  bq_reply>>

Environments ==
  {Restrict([GOOGLE_CLOUD_PROJECT |-> "my-project",
             BIGQUERY_TABLE |-> "psi.results"], S) :
     S \in SUBSET {"GOOGLE_CLOUD_PROJECT", "BIGQUERY_TABLE"}}

InitRequests ==
  /\ environ \in Environments
  /\ table = <<>>
  /\ log = [r \in Requests |-> <<>>]
  /\ pc = [r \in Requests |-> "request"]
  /\ test_url = [r \in Requests |-> Unbound]
  /\ psi_object = [r \in Requests |-> Unset]
  /\ audits = [r \in Requests |-> Unset]
  /\ bq_table = [r \in Requests |-> Unbound]
  /\ errors = [r \in Requests |-> Unset]
  /\ exc = [r \in Requests |-> None]
  /\ insert_calls = [r \in Requests |-> 0]
  /\ response = [r \in Requests |-> NoResponse]
  /\ psi_reply = [r \in Requests |-> Unset]
  /\ bq_reply = [r \in Requests |-> Unset]

Init ==
  /\ InitRequests
  /\ arg_psi_json = None
  /\ ret_extract = Unset

(* ------------------------- logging and flask ---------------------------- *)

\* logging.exception(msg, *args): an ERROR record on the root logger.
LogException(r, msg, e) ==
  [logger |-> "root", level |-> "ERROR", request |-> r, msg |-> msg,
   exc_info |-> e]

\* Flask logs an exception no handler caught on the app logger and answers
\* 500 Internal Server Error.
FlaskLog(r, e) ==
  [logger |-> "main", level |-> "ERROR", request |-> r,
   msg |-> <<"Exception on %s [%s]", "/submit", "POST">>, exc_info |-> e]

ServerError(e) == [status |-> 500, exc |-> e]

BadRequest == [status |-> 400, exc |-> [type |-> "BadRequestKeyError"]]

\* flask.render_template('index.html', state=state)
render_template(state) == [status |-> 200, state |-> state]

\* An exception leaves submit_test.
Propagate(r, e) ==
  /\ log' = [log EXCEPT ![r] = Append(@, FlaskLog(r, e))]
  /\ response' = [response EXCEPT ![r] = ServerError(e)]
  /\ pc' = [pc EXCEPT ![r] = "done"]

(* --------------------- get_psi_audit (lines 34-60) ---------------------- *)

\* An except clause that names urllib's HTTPError instead.
IsUrllibHTTPError(e) == e.type = "HTTPError"

\* except HttpError (line 55)
IsHttpError(e) == e.type = "HttpError"

\* The outcome of get_psi_audit given that of psi_request.execute().
get_psi_audit(executed) ==
  IF ~executed.raised THEN Returned(executed.value)
  ELSE IF IsHttpError(executed.exc) THEN Returned(None)
  ELSE executed

(* --------------------- insert_audits (lines 101-118) -------------------- *)

\* An insert keyed by url: an earlier row of the same url is replaced.
upsert_rows(tbl, rows) ==
  SelectSeq(tbl, LAMBDA old : \A i \in DOMAIN rows : old.url # rows[i].url)
    \o rows

\* bq_client.insert_rows(bq_table, rows) on a table that accepts the rows
insert_rows(tbl, rows) == tbl \o rows

\* A test that lets a single row error pass.
SeveralErrors(errs) == Len(errs) > 1

\* if errors (line 117)
WriteFailed(errs) == errs # <<>>

\* RuntimeError(f'Failed to write all rows to bigquery: {errors}.')
RuntimeError(errs) ==
  [type |-> "RuntimeError",
   msg |-> <<"Failed to write all rows to bigquery: ", errs, ".">>]

\* The outcome of insert_audits(name, row) on the table tbl given the
\* replies of BigQuery: the exception raised (None if it returns), the table
\* afterwards and the local errors.
insert_audits(tbl, name, row, reply) ==
  IF "GOOGLE_CLOUD_PROJECT" \notin DOMAIN environ
  THEN [exc |-> KeyError("GOOGLE_CLOUD_PROJECT"), table |-> tbl,
        errors |-> Unset]
  ELSE IF reply.get_table.raised
  THEN [exc |-> reply.get_table.exc, table |-> tbl, errors |-> Unset]
  ELSE IF reply.insert_rows.raised
  THEN [exc |-> reply.insert_rows.exc, table |-> tbl, errors |-> Unset]
  ELSE LET errs == reply.insert_rows.value
       IN [exc |-> IF WriteFailed(errs) THEN RuntimeError(errs) ELSE None,
           table |-> IF errs = <<>> THEN insert_rows(tbl, <<row>>) ELSE tbl,
           errors |-> Returned(errs)]

(* ---------------------- submit_test (lines 127-140) --------------------- *)

\* An except clause that names ValueError alone.
CaughtValueErrorOnly(e) == e.type = "ValueError"

\* except (ValueError, RuntimeError) (line 136)
Caught(e) == e.type \in {"ValueError", "RuntimeError"}

\* line 130: flask.request.form['test_url']; a form without the field is
\* answered 400 Bad Request
Receive(r) ==
  /\ pc[r] = "request"
  /\ \E form \in {EmptyDict} \cup {[test_url |-> u] : u \in Urls} :
       IF "test_url" \in DOMAIN form
       THEN /\ test_url' = [test_url EXCEPT ![r] = form.test_url]
            /\ pc' = [pc EXCEPT ![r] = "get_psi_audit"]
            /\ UNCHANGED <<response, log>>
       ELSE /\ response' = [response EXCEPT ![r] = BadRequest]
            /\ pc' = [pc EXCEPT ![r] = "done"]
            /\ UNCHANGED <<test_url, log>>
  /\ UNCHANGED <<environ, table, psi_object, audits, bq_table, errors, exc,
                 insert_calls, psi_reply, bq_reply, arg_psi_json,
                 ret_extract>>

\* line 131: psi_object = get_psi_audit(test_url)
GetPsiAudit(r) ==
  /\ pc[r] = "get_psi_audit"
  /\ \E executed \in ExecuteOutcomes(test_url[r]) :
       LET res == get_psi_audit(executed)
       IN /\ psi_reply' = [psi_reply EXCEPT ![r] = executed]
          /\ IF res.raised
             THEN /\ Propagate(r, res.exc)
                  /\ UNCHANGED psi_object
             ELSE /\ psi_object' = [psi_object EXCEPT ![r] = res.value]
                  /\ pc' = [pc EXCEPT ![r] = "extract_audits"]
                  /\ log' = IF executed.raised
                            THEN [log EXCEPT ![r] = Append(@,
                                   LogException(r,
                                     <<"PSI Error %d: %s",
                                       executed.exc.status_code,
                                       executed.exc.error_details>>,
                                     executed.exc))]
                            ELSE log
                  /\ UNCHANGED response
  /\ UNCHANGED <<environ, table, test_url, audits, bq_table, errors, exc,
                 insert_calls, bq_reply, arg_psi_json, ret_extract>>

\* line 132: audits = extract_audits(psi_object)
ExtractAudits(r) ==
  /\ pc[r] = "extract_audits"
  /\ LET res == extract_audits(psi_object[r])
     IN IF res.raised
        THEN /\ Propagate(r, res.exc)
             /\ UNCHANGED audits
        ELSE /\ audits' = [audits EXCEPT ![r] = res.value]
             /\ pc' = [pc EXCEPT ![r] = "environ"]
             /\ UNCHANGED <<response, log>>
  /\ UNCHANGED <<environ, table, test_url, psi_object, bq_table, errors, exc,
                 insert_calls, psi_reply, bq_reply, arg_psi_json,
                 ret_extract>>

\* line 133: bq_table = os.environ['BIGQUERY_TABLE']
LookupTable(r) ==
  /\ pc[r] = "environ"
  /\ LET res == GetItem(environ, "BIGQUERY_TABLE")
     IN IF res.raised
        THEN /\ Propagate(r, res.exc)
             /\ UNCHANGED bq_table
        ELSE /\ bq_table' = [bq_table EXCEPT ![r] = res.value]
             /\ pc' = [pc EXCEPT ![r] = "insert_audits"]
             /\ UNCHANGED <<response, log>>
  /\ UNCHANGED <<environ, table, test_url, psi_object, audits, errors, exc,
                 insert_calls, psi_reply, bq_reply, arg_psi_json,
                 ret_extract>>

\* audits kept in one module-level name, rebound by every request: the
\* value of the highest-numbered request that has extracted.
GlobalAudits(r) ==
  IF \E q \in Requests : audits[q] # Unset
  THEN audits[CHOOSE q \in Requests :
                /\ audits[q] # Unset
                /\ \A q2 \in Requests : q2 > q => audits[q2] = Unset]
  ELSE audits[r]

\* The local audits of the request's own call of submit_test (line 132),
\* which line 135 passes on.
LocalAudits(r) == audits[r]

\* line 135: insert_audits(bq_table, audits), inside the try
InsertAudits(r) ==
  /\ pc[r] = "insert_audits"
  /\ \E reply \in BigQueryReplies :
       LET res == insert_audits(table, bq_table[r], LocalAudits(r), reply)
       IN /\ bq_reply' = [bq_reply EXCEPT ![r] = reply]
          /\ table' = res.table
          /\ errors' = [errors EXCEPT ![r] = res.errors]
          /\ exc' = [exc EXCEPT ![r] = res.exc]
  /\ insert_calls' = [insert_calls EXCEPT ![r] = @ + 1]
  /\ pc' = [pc EXCEPT ![r] = "respond"]
  /\ UNCHANGED <<environ, log, test_url, psi_object, audits, bq_table,
                 response, psi_reply, arg_psi_json, ret_extract>>

\* lines 136-140: the except clause and the two renders
Respond(r) ==
  /\ pc[r] = "respond"
  /\ IF exc[r] = None
     THEN /\ response' = [response EXCEPT ![r] = render_template("success")]
          /\ pc' = [pc EXCEPT ![r] = "done"]
          /\ UNCHANGED log
     ELSE IF Caught(exc[r])
     THEN /\ log' = [log EXCEPT ![r] =
                      Append(@, LogException(r, <<"%s", exc[r]>>, exc[r]))]
          /\ response' = [response EXCEPT ![r] = render_template("failure")]
          /\ pc' = [pc EXCEPT ![r] = "done"]
     ELSE Propagate(r, exc[r])
  /\ UNCHANGED <<environ, table, test_url, psi_object, audits, bq_table,
                 errors, exc, insert_calls, psi_reply, bq_reply,
                 arg_psi_json, ret_extract>>

Next ==
  \E r \in Requests :
    \/ Receive(r)
    \/ GetPsiAudit(r)
    \/ ExtractAudits(r)
    \/ LookupTable(r)
    \/ InsertAudits(r)
    \/ Respond(r)

Spec == Init /\ [][Next]_vars

(* ---------------- extract_audits applied on its own --------------------- *)

InitExtract ==
  /\ InitRequests
  /\ DOMAIN environ = {"GOOGLE_CLOUD_PROJECT", "BIGQUERY_TABLE"}
  /\ arg_psi_json \in ExtractInputs
  /\ ret_extract = Unset

CallExtract ==
  /\ ret_extract = Unset
  /\ ret_extract' = extract_audits(arg_psi_json)
  /\ UNCHANGED <<arg_psi_json, request_vars>>

NextExtract == CallExtract

SpecExtract == InitExtract /\ [][NextExtract]_vars

(* ------------------------------ properties ------------------------------ *)

Done(r) == pc[r] = "done"

Success == render_template("success")

Failure == render_template("failure")

\* The 15 columns of a row.
RowKeys == {"date", "url"} \cup MetricNames

\* Every field extract_audits reads is in the response p.
HasAllFields(p) ==
  /\ "analysisUTCTimestamp" \in DOMAIN p
  /\ "lighthouseResult" \in DOMAIN p
  /\ "finalUrl" \in DOMAIN p.lighthouseResult
  /\ "audits" \in DOMAIN p.lighthouseResult
  /\ \A a \in AuditIds :
       /\ a \in DOMAIN p.lighthouseResult.audits
       /\ "numericValue" \in DOMAIN p.lighthouseResult.audits[a]

TimestampParses(p) == strptime(p.analysisUTCTimestamp) # ValueError

\* The id of the audit stored in column k.
AuditOf(k) ==
  audits_map[CHOOSE i \in DOMAIN audits_map : audits_map[i][2] = k][1]

\* The row a complete response p stands for, field by field.
ExpectedRow(p) ==
  [k \in RowKeys |->
     IF k = "date" THEN strptime(p.analysisUTCTimestamp)
     ELSE IF k = "url" THEN p.lighthouseResult.finalUrl
     ELSE p.lighthouseResult.audits[AuditOf(k)].numericValue]

\* The request's extraction ran and raised.
ExtractionRaised(r) ==
  psi_object[r] # Unset /\ Done(r) /\ extract_audits(psi_object[r]).raised

\* The request's call of insert_audits raised.
InsertionRaised(r) == insert_calls[r] > 0 /\ exc[r] # None

\* submit_test logged exception e of request r (line 137).
LoggedBySubmit(r, e) ==
  \E i \in DOMAIN log[r] :
    /\ log[r][i].logger = "root"
    /\ log[r][i].msg[1] = "%s"
    /\ log[r][i].exc_info = e

\* insert_rows took the request's row.
Accepted(r) == errors[r] # Unset /\ errors[r].value = <<>>

\* insert_rows rejected the request's row.
Rejected(r) == errors[r] # Unset /\ errors[r].value # <<>>

\* C1: every failure raised by the extraction or by the insertion of a
\* finished request was logged by submit_test and the request rendered
\* state="failure".
C1_FailuresRenderFailure ==
  \A r \in Requests :
    (Done(r) /\ (ExtractionRaised(r) \/ InsertionRaised(r))) =>
      /\ response[r] = Failure
      /\ \E i \in DOMAIN log[r] :
           log[r][i].logger = "root" /\ log[r][i].msg[1] = "%s"

\* C2: every finished POST /submit request that carried test_url ended in
\* one of the two render states, success or failure.
C2_TwoRenderStates ==
  \A r \in Requests :
    (Done(r) /\ test_url[r] # Unbound) => response[r] \in {Success, Failure}

\* C3: when psi_request.execute() raised HttpError, the error was logged,
\* get_psi_audit returned None to submit_test, and the request is not
\* answered with that HttpError as an uncaught exception.
C3_HttpErrorBecomesNone ==
  \A r \in Requests :
    (/\ psi_reply[r] # Unset
     /\ psi_reply[r].raised
     /\ psi_reply[r].exc.type = "HttpError") =>
      /\ psi_object[r] = None
      /\ pc[r] \in {"extract_audits", "done"}
      /\ \E i \in DOMAIN log[r] :
           /\ log[r][i].logger = "root"
           /\ log[r][i].msg[1] = "PSI Error %d: %s"
           /\ log[r][i].msg[2] = psi_reply[r].exc.status_code
           /\ log[r][i].msg[3] = psi_reply[r].exc.error_details
      /\ response[r] # ServerError(psi_reply[r].exc)

C3_Witness ==
  \E r \in Requests :
    /\ psi_reply[r] = Raised(HttpError)
    /\ pc[r] = "extract_audits"
    /\ psi_object[r] = None

\* C4: a finished request whose audit call returned a complete well-formed
\* report renders success if insert_rows reported no row error, and logs the
\* error and renders failure if insert_rows reported row errors.
C4_InsertDecidesRender ==
  \A r \in Requests :
    (/\ Done(r)
     /\ errors[r] # Unset
     /\ psi_reply[r] # Unset
     /\ ~psi_reply[r].raised
     /\ HasAllFields(psi_reply[r].value)
     /\ TimestampParses(psi_reply[r].value)) =>
      IF errors[r].value = <<>>
      THEN response[r] = Success
      ELSE /\ response[r] = Failure
           /\ LoggedBySubmit(r, RuntimeError(errors[r].value))

C4_Witness ==
  \E r1, r2 \in Requests :
    /\ Done(r1) /\ Accepted(r1) /\ response[r1] = Success
    /\ Done(r2) /\ Rejected(r2) /\ response[r2] = Failure

\* C5: a call of insert_audits raised RuntimeError exactly when insert_rows
\* returned a non-empty list of row errors, the RuntimeError's message
\* carries that list, and the call returned normally when the list was empty.
C5_WriteErrorIffRowErrors ==
  \A r \in Requests :
    insert_calls[r] > 0 =>
      /\ (exc[r].type = "RuntimeError") <=> Rejected(r)
      /\ exc[r].type = "RuntimeError" =>
           exc[r].msg = <<"Failed to write all rows to bigquery: ",
                          errors[r].value, ".">>
      /\ Accepted(r) => exc[r] = None

C5_Witness ==
  \E r1, r2 \in Requests :
    /\ exc[r1].type = "RuntimeError"
    /\ Rejected(r1)
    /\ errors[r1].value = RowError("stopped")
    /\ insert_calls[r2] > 0
    /\ Accepted(r2)
    /\ exc[r2] = None

\* C6 as stated: for every response, either all required fields are present
\* and extract_audits returned a row of exactly the 15 keys, or a required
\* field is missing and extract_audits failed.
C6_PresentOrFails ==
  ret_extract # Unset =>
    \/ /\ arg_psi_json # None
       /\ HasAllFields(arg_psi_json)
       /\ ~ret_extract.raised
       /\ DOMAIN ret_extract.value = RowKeys
    \/ /\ arg_psi_json = None \/ ~HasAllFields(arg_psi_json)
       /\ ret_extract.raised

\* C6 as amended: either all required fields are present, the timestamp
\* parses, and extract_audits returned a row of exactly the 15 keys (the 13
\* metric names, date and url); or a required field is missing or the
\* timestamp does not parse, and extract_audits failed, returning no row.
C6_CompleteRowOrFails ==
  ret_extract # Unset =>
    \/ /\ arg_psi_json # None
       /\ HasAllFields(arg_psi_json)
       /\ TimestampParses(arg_psi_json)
       /\ ~ret_extract.raised
       /\ DOMAIN ret_extract.value = RowKeys
       /\ Cardinality(DOMAIN ret_extract.value) = 15
    \/ /\ \/ arg_psi_json = None
          \/ ~HasAllFields(arg_psi_json)
          \/ ~TimestampParses(arg_psi_json)
       /\ ret_extract.raised

C6_Witness ==
  /\ ret_extract # Unset
  /\ ~ret_extract.raised
  /\ DOMAIN ret_extract.value = RowKeys
  /\ arg_psi_json # None
  /\ HasAllFields(arg_psi_json)

\* Number of rows of the table whose url is u.
RowsOf(u) == Cardinality({i \in DOMAIN table : table[i].url = u})

\* C7: the table is append-only and nothing is deduplicated: every step
\* leaves the rows written so far in place, and for each URL the table holds
\* one row per accepted submission of it (two for two).
C7_AppendOnlyNoDedup ==
  /\ [][/\ Len(table') >= Len(table)
        /\ SubSeq(table', 1, Len(table)) = table]_vars
  /\ [](\A u \in Urls :
          RowsOf(Resolved(u)) =
            Cardinality({r \in Requests : Accepted(r) /\ test_url[r] = u}))

C7_Witness ==
  \E r1, r2 \in Requests :
    /\ r1 # r2
    /\ test_url[r1] = test_url[r2]
    /\ response[r1] = Success
    /\ response[r2] = Success
    /\ Len(table) = 2
    /\ table[1] = table[2]

\* C8: a call of insert_audits whose row the table accepts appends exactly
\* one row, and that row holds, field by field, the values of the audit
\* response the request extracted it from.
C8_RoundTrip ==
  [][\A r \in Requests :
       (/\ pc[r] = "insert_audits"
        /\ pc'[r] = "respond"
        /\ errors'[r] # Unset
        /\ errors'[r].value = <<>>) =>
         table' = Append(table, ExpectedRow(psi_object[r]))]_vars

C8_Witness ==
  \E r \in Requests :
    /\ Accepted(r)
    /\ Len(table) = 1
    /\ table[1] = ExpectedRow(psi_object[r])
    /\ table[1].url = Resolved(test_url[r])
    /\ table[1].date.microsecond = 789000

\* What a request with these replies does when it is served alone, on an
\* empty table: its response and the rows it appends.
SoloRun(preply, breply) ==
  LET a == get_psi_audit(preply)
  IN IF a.raised THEN [response |-> ServerError(a.exc), rows |-> <<>>]
     ELSE LET e == extract_audits(a.value)
          IN IF e.raised
             THEN [response |-> ServerError(e.exc), rows |-> <<>>]
             ELSE LET t == GetItem(environ, "BIGQUERY_TABLE")
                  IN IF t.raised
                     THEN [response |-> ServerError(t.exc), rows |-> <<>>]
                     ELSE LET i == insert_audits(<<>>, t.value, e.value,
                                                 breply)
                          IN [response |->
                                IF i.exc = None THEN Success
                                ELSE IF Caught(i.exc) THEN Failure
                                ELSE ServerError(i.exc),
                              rows |-> i.table]

\* C9: under every interleaving, each request does what it does when
\* served alone: its insert appends exactly the rows of its run alone, after
\* the rows already there; the response it finishes with is that of its run
\* alone and stays; and the table holds one row per accepted insert.
C9_RequestsIndependent ==
  /\ [][\A r \in Requests :
          (pc[r] = "insert_audits" /\ pc'[r] = "respond") =>
            table' = table \o SoloRun(psi_reply[r], bq_reply'[r]).rows]_vars
  /\ [][\A r \in Requests :
          (pc[r] # "done" /\ pc'[r] = "done" /\ psi_reply'[r] # Unset) =>
            response'[r] = SoloRun(psi_reply'[r], bq_reply'[r]).response]_vars
  /\ [][\A r \in Requests :
          /\ pc[r] = "done" => pc'[r] = "done" /\ response'[r] = response[r]
          /\ pc[r] # "insert_audits" => bq_reply'[r] = bq_reply[r]
          /\ pc[r] # "get_psi_audit" => psi_reply'[r] = psi_reply[r]]_vars
  /\ [](Len(table) = Cardinality({r \in Requests : Accepted(r)}))

C9_Witness ==
  \E r1, r2 \in Requests :
    /\ test_url[r1] # test_url[r2]
    /\ pc[r1] = "respond"
    /\ pc[r2] = "respond"
    /\ Accepted(r1)
    /\ Accepted(r2)
    /\ Len(table) = 2
    /\ table[1] = SoloRun(psi_reply[r2], bq_reply[r2]).rows[1]
    /\ table[2] = SoloRun(psi_reply[r1], bq_reply[r1]).rows[1]

\* C10: a request calls insert_audits at most once, and only after its
\* audit call returned a response and its extraction returned a row of it;
\* the table changes only in such a call, by that row (so a request whose
\* audit call or extraction failed appends nothing); a request renders
\* success only if its insert was called and its row accepted.
C10_InsertOnlyAfterExtraction ==
  /\ [](\A r \in Requests :
          /\ insert_calls[r] <= 1
          /\ insert_calls[r] = 1 =>
               /\ psi_reply[r] # Unset
               /\ ~psi_reply[r].raised
               /\ psi_object[r] = psi_reply[r].value
               /\ psi_object[r] # None
               /\ audits[r] # Unset
               /\ DOMAIN audits[r] = RowKeys
          /\ errors[r] # Unset => insert_calls[r] = 1
          /\ response[r] = Success => insert_calls[r] = 1 /\ Accepted(r))
  /\ [][table' # table =>
          \E r \in Requests :
            /\ pc[r] = "insert_audits"
            /\ insert_calls[r] = 0
            /\ insert_calls'[r] = 1
            /\ psi_object[r] # None
            /\ audits[r] # Unset
            /\ table' = Append(table, audits[r])]_vars

C10_Witness ==
  \E r1, r2 \in Requests :
    /\ Done(r1)
    /\ psi_reply[r1] = Raised(HttpError)
    /\ insert_calls[r1] = 0
    /\ Done(r2)
    /\ response[r2] = Success
    /\ insert_calls[r2] = 1
    /\ Len(table) = 1

=============================================================================
